---- MODULE Spec2Model ----
(***************************************************************************)
(* Model of src/app.py: a script that looks a news source up in            *)
(* SOURCES_CONFIG, fetches its page, walks the elements matched by the     *)
(* source's headline selector and prints a deduplicated, capped list of    *)
(* (headline, link) pairs.                                                 *)
(*                                                                         *)
(* Strings are sequences of tokens.  The delimiters "/", ":", "#" and the  *)
(* blank " " are tokens of their own; every other token is a word holding  *)
(* none of them.  Concatenation is \o, the empty string is << >>.  No word *)
(* of the model is a proper prefix of another, so str.startswith agrees    *)
(* with the prefix test on tokens.  "?" and ";" do not occur, so the query *)
(* and params parts of a URL are always empty and are left out.            *)
(***************************************************************************)
EXTENDS Integers, Sequences, FiniteSets, TLC

(* ------------------------------ bounds --------------------------------- *)
MaxNodes == 2
MaxRuns == 2

(* ------------------------------ strings -------------------------------- *)
StartsWith(s, p) == Len(s) >= Len(p) /\ SubSeq(s, 1, Len(p)) = p

RECURSIVE LStrip(_)
LStrip(s) == IF s # << >> /\ Head(s) = " " THEN LStrip(Tail(s)) ELSE s

RECURSIVE RStrip(_)
RStrip(s) ==
    IF s # << >> /\ s[Len(s)] = " " THEN RStrip(SubSeq(s, 1, Len(s) - 1)) ELSE s

Strip(s) == RStrip(LStrip(s))

\* Index of the first token of s that is in stops, Len(s)+1 when there is none.
RECURSIVE FirstOf(_, _, _)
FirstOf(s, stops, i) ==
    IF i > Len(s) \/ s[i] \in stops THEN i ELSE FirstOf(s, stops, i + 1)

PrependToken(t, segs) == << <<t>> \o Head(segs) >> \o Tail(segs)

\* str.split('/'): the segments between the slashes, each a string
RECURSIVE SplitSlash(_)
SplitSlash(s) ==
    IF s = << >> THEN << << >> >>
    ELSE IF Head(s) = "/" THEN << << >> >> \o SplitSlash(Tail(s))
    ELSE PrependToken(Head(s), SplitSlash(Tail(s)))

RECURSIVE JoinSlash(_)
JoinSlash(segs) ==
    IF segs = << >> THEN << >>
    ELSE IF Len(segs) = 1 THEN segs[1]
    ELSE segs[1] \o <<"/">> \o JoinSlash(Tail(segs))

source_lower(s) ==
    CASE s = "BBC" -> "bbc"
      [] s = "CNN" -> "cnn"
      [] s = "Fox" -> "fox"
      [] OTHER -> s

source_upper(s) ==
    CASE s = "bbc" -> "BBC"
      [] s = "cnn" -> "CNN"
      [] s = "fox" -> "FOX"
      [] s = "cbs" -> "CBS"
      [] s = "wsj" -> "WSJ"
      [] OTHER -> s

(* ------------------------- urllib.parse.urljoin ------------------------ *)
Delims == {"/", ":", "#", " "}
uses_relative == {"", "http", "https", "ftp", "file"}
uses_netloc == {"", "http", "https", "ftp", "file"}

\* urlparse: scheme, netloc, path and fragment of a URL
ParsePath(scheme, netloc, rest) ==
    [scheme |-> scheme,
     netloc |-> netloc,
     path |-> SubSeq(rest, 1, FirstOf(rest, {"#"}, 1) - 1),
     fragment |-> SubSeq(rest, FirstOf(rest, {"#"}, 1) + 1, Len(rest))]

ParseNetloc(scheme, rest) ==
    ParsePath(scheme,
              SubSeq(rest, 1, FirstOf(rest, {"/", "#"}, 1) - 1),
              SubSeq(rest, FirstOf(rest, {"/", "#"}, 1), Len(rest)))

ParseAfterScheme(scheme, rest) ==
    IF StartsWith(rest, <<"/", "/">>)
    THEN ParseNetloc(scheme, SubSeq(rest, 3, Len(rest)))
    ELSE ParsePath(scheme, << >>, rest)

HasScheme(url) == Len(url) >= 2 /\ url[2] = ":" /\ url[1] \notin Delims

urlparse(url, default_scheme) ==
    IF HasScheme(url) THEN ParseAfterScheme(url[1], SubSeq(url, 3, Len(url)))
    ELSE ParseAfterScheme(default_scheme, url)

SlashBefore(path) == IF path # << >> /\ Head(path) # "/" THEN <<"/">> \o path ELSE path

WithFragment(url, fragment) ==
    IF fragment # << >> THEN url \o <<"#">> \o fragment ELSE url

urlunparse(scheme, netloc, path, fragment) ==
    WithFragment(
        (IF scheme # "" THEN <<scheme, ":">> ELSE << >>)
        \o (IF netloc # << >>
               \/ (scheme \in uses_netloc /\ ~StartsWith(path, <<"/", "/">>))
            THEN <<"/", "/">> \o netloc \o SlashBefore(path)
            ELSE path),
        fragment)

\* segments[1:-1] = filter(None, segments[1:-1])
DropInnerEmpty(segs) ==
    IF Len(segs) <= 2 THEN segs
    ELSE <<segs[1]>>
         \o SelectSeq(SubSeq(segs, 2, Len(segs) - 1), LAMBDA x : x # << >>)
         \o <<segs[Len(segs)]>>

\* base_parts = bpath.split('/'); if base_parts[-1] != '': del base_parts[-1]
BaseParts(bp) == IF bp[Len(bp)] # << >> THEN SubSeq(bp, 1, Len(bp) - 1) ELSE bp

Segments(bpath, path) ==
    IF Head(path) = "/" THEN SplitSlash(path)
    ELSE DropInnerEmpty(BaseParts(SplitSlash(bpath)) \o SplitSlash(path))

Pop(acc) == IF acc = << >> THEN acc ELSE SubSeq(acc, 1, Len(acc) - 1)

RECURSIVE ResolveDots(_, _)
ResolveDots(segs, acc) ==
    IF segs = << >> THEN acc
    ELSE IF Head(segs) = <<"..">> THEN ResolveDots(Tail(segs), Pop(acc))
    ELSE IF Head(segs) = <<".">> THEN ResolveDots(Tail(segs), acc)
    ELSE ResolveDots(Tail(segs), Append(acc, Head(segs)))

OrRoot(path) == IF path = << >> THEN <<"/">> ELSE path

ResolvedPath(segments) ==
    OrRoot(JoinSlash(
        IF segments[Len(segments)] \in {<<".">>, <<"..">>}
        THEN Append(ResolveDots(segments, << >>), << >>)
        ELSE ResolveDots(segments, << >>)))

JoinParsed(url, b, u) ==
    IF u.scheme # b.scheme \/ u.scheme \notin uses_relative THEN url
    ELSE IF u.scheme \in uses_netloc /\ u.netloc # << >>
    THEN urlunparse(u.scheme, u.netloc, u.path, u.fragment)
    ELSE IF u.path = << >>
    THEN urlunparse(u.scheme, b.netloc, b.path, u.fragment)
    ELSE urlunparse(u.scheme, b.netloc, ResolvedPath(Segments(b.path, u.path)),
                    u.fragment)

urljoin(base, url) ==
    IF base = << >> THEN url
    ELSE IF url = << >> THEN base
    ELSE JoinParsed(url, urlparse(base, ""), urlparse(url, urlparse(base, "").scheme))

(* ---------------------------- configuration ---------------------------- *)
DEFAULT_MAX_ITEMS == 10
GET_DEFAULT_MAX_ITEMS == 15

Site(host) == <<"https", ":", "/", "/", host>>

SourceKeys == <<"bbc", "cnn", "fox", "cbs", "wsj">>

SOURCES_CONFIG ==
    [k \in {SourceKeys[i] : i \in DOMAIN SourceKeys} |->
        LET host == CASE k = "bbc" -> "www.bbc.com"
                      [] k = "cnn" -> "www.cnn.com"
                      [] k = "fox" -> "www.foxnews.com"
                      [] k = "cbs" -> "www.cbsnews.com"
                      [] k = "wsj" -> "www.wsj.com"
        IN [key |-> k,
            url |-> IF k = "bbc" THEN Site(host) \o <<"/", "news">> ELSE Site(host),
            base_url |-> Site(host),
            max_items |-> DEFAULT_MAX_ITEMS]]

\* config['link_filter'](href), taken for its truth value
link_filter(key, href) ==
    CASE key = "bbc" -> href # << >> /\ StartsWith(href, <<"/", "news">>)
      [] key = "cnn" -> href # << >> /\ ~StartsWith(href, <<"#">>)
      [] OTHER -> href # << >>
                  /\ (StartsWith(href, <<"/">>)
                      \/ StartsWith(href, SOURCES_CONFIG[key].base_url))

(* ------------------------------ documents ------------------------------ *)
\* An element of the fetched page: whether the headline selector matches it,
\* where its hyperlink is ("self": the element is an <a>; "parent": it has an
\* ancestor <a>; "none"), its text, and the href attribute of that hyperlink.
Element(matches, link, text, has_href, href) ==
    [matches |-> matches, link |-> link, text |-> text,
     has_href |-> has_href, href |-> href]

NewsA == <<"/", "news", "/", "a">>
NewsB == <<"/", "news", "/", "b">>

ElementPool ==
    { Element(TRUE, "self", <<"First">>, TRUE, NewsA),
      Element(TRUE, "parent", <<" ", "Second", " ">>, TRUE, NewsB),
      Element(TRUE, "self", <<"Third">>, TRUE, <<"/", "news", "/", ".", "/", "a">>),
      Element(TRUE, "none", <<"Orphan">>, FALSE, << >>),
      Element(TRUE, "self", <<" ">>, TRUE, NewsB),
      Element(TRUE, "parent", <<"Top">>, TRUE, <<"#", "top">>),
      Element(TRUE, "self", <<"Bare">>, FALSE, << >>),
      Element(TRUE, "self", <<"Abs">>, TRUE, Site("www.cnn.com") \o NewsA),
      Element(TRUE, "parent", <<"Sport">>, TRUE, <<"/", "sport", "/", "c">>),
      Element(FALSE, "self", <<"Nav">>, TRUE, <<"/", "news", "/", "n">>) }

Words == <<"a", "b", "c", "d", "e", "f", "g", "h", "i", "j", "k", "l">>

\* A page with more distinct article links than DEFAULT_MAX_ITEMS.
LongPage ==
    [i \in 1..(DEFAULT_MAX_ITEMS + 2) |->
        Element(TRUE, "self", <<Words[i]>>, TRUE, <<"/", "news", "/", Words[i]>>)]

\* First, Second, First again; and First, a second spelling of First's link, Second.
ScenarioPages ==
    LET first == Element(TRUE, "self", <<"First">>, TRUE, NewsA)
        second == Element(TRUE, "parent", <<" ", "Second", " ">>, TRUE, NewsB)
        third == Element(TRUE, "self", <<"Third">>, TRUE,
                         <<"/", "news", "/", ".", "/", "a">>)
    IN { <<first, second, first>>, <<first, third, second>> }

Pages ==
    UNION { [1..n -> ElementPool] : n \in 0..MaxNodes }
        \cup ScenarioPages \cup {LongPage}

SourceArgs == {"BBC", "cnn", "fox", "nyt"}

\* max_items is None or an int: << >> stands for None, <<n>> for the int n.
None == << >>
MaxItemsArgs == {None, <<0>>, <<-1>>, <<1>>, <<2>>}

(* -------------------------------- state -------------------------------- *)
VARIABLES
    argSource,   \* the value line 20 assigns to source
    argMax,      \* the value line 21 assigns to max_items
    page,        \* the document the site serves
    source, max_items, config, response,
    elements,    \* soup.select(config['headline_selector'])
    idx,         \* position of the for loop in elements
    headlines, seen_urls,
    output,      \* the lines printed
    error,       \* the exception the script ended with
    fetches,     \* requests.get calls of this run
    pc, run,
    extracted,   \* the for loop of this run has ended
    prev         \* what the previous run left: its headlines, if its loop ended

vars == <<argSource, argMax, page, source, max_items, config, response, elements,
          idx, headlines, seen_urls, output, error, fetches, pc, run, extracted, prev>>

NoError == [type |-> "", msg |-> << >>]

Init ==
    /\ argSource \in SourceArgs
    /\ argMax \in MaxItemsArgs
    /\ page \in Pages
    /\ source = argSource
    /\ max_items = argMax
    /\ config = ""
    /\ response = << >>
    /\ elements = << >>
    /\ idx = 1
    /\ headlines = << >>
    /\ seen_urls = {}
    /\ output = << >>
    /\ error = NoError
    /\ fetches = 0
    /\ pc = "start"
    /\ run = 1
    /\ extracted = FALSE
    /\ prev = [extracted |-> FALSE, headlines |-> << >>, max_items |-> None]

(* ------------------------------- lookup -------------------------------- *)
Truthy(m) == m # None /\ m[1] # 0

UnsupportedMessageDocumented == <<"Unsupported news source. Try one of:">> \o SubSeq(SourceKeys, 1, 4)
UnsupportedMessage == <<"Unsupported news source. Try one of:">> \o SourceKeys

ConfigGet(cfg, field, default) ==
    IF field \in DOMAIN cfg THEN cfg[field] ELSE default

LookupFail ==
    /\ pc = "start"
    /\ source_lower(source) \notin DOMAIN SOURCES_CONFIG
    /\ source' = source_lower(source)
    /\ error' = [type |-> "ValueError", msg |-> UnsupportedMessage]
    /\ pc' = "failed"
    /\ UNCHANGED <<argSource, argMax, page, max_items, config, response, elements,
                   idx, headlines, seen_urls, output, fetches, run, extracted, prev>>

LookupOK ==
    /\ pc = "start"
    /\ source_lower(source) \in DOMAIN SOURCES_CONFIG
    /\ source' = source_lower(source)
    /\ config' = source_lower(source)
    /\ max_items' = IF Truthy(max_items) THEN max_items
                    ELSE <<ConfigGet(SOURCES_CONFIG[source_lower(source)],
                                     "max_items", GET_DEFAULT_MAX_ITEMS)>>
    /\ pc' = "fetch"
    /\ UNCHANGED <<argSource, argMax, page, response, elements, idx, headlines,
                   seen_urls, output, error, fetches, run, extracted, prev>>

(* -------------------------------- fetch -------------------------------- *)
FetchOK ==
    /\ pc = "fetch"
    /\ fetches' = fetches + 1
    /\ response' = page
    /\ pc' = "parse"
    /\ UNCHANGED <<argSource, argMax, page, source, max_items, config, elements, idx,
                   headlines, seen_urls, output, error, run, extracted, prev>>

\* requests.get or raise_for_status raises a RequestException
FetchFail ==
    /\ pc = "fetch"
    /\ fetches' = fetches + 1
    /\ error' = [type |-> "RuntimeError", msg |-> <<"Failed to fetch news:">>]
    /\ pc' = "failed"
    /\ UNCHANGED <<argSource, argMax, page, source, max_items, config, response,
                   elements, idx, headlines, seen_urls, output, run, extracted, prev>>

(* ------------------------------ extraction ----------------------------- *)
select(soup) == SelectSeq(soup, LAMBDA e : e.matches)

BeginExtractStaleSeen ==
    /\ pc = "parse"
    /\ headlines' = << >>
    /\ elements' = select(response)
    /\ idx' = 1
    /\ pc' = "loop"
    /\ UNCHANGED <<argSource, argMax, page, source, max_items, config, response,
                   seen_urls, output, error, fetches, run, extracted, prev>>

BeginExtract ==
    /\ pc = "parse"
    /\ headlines' = << >>
    /\ seen_urls' = {}
    /\ elements' = select(response)
    /\ idx' = 1
    /\ pc' = "loop"
    /\ UNCHANGED <<argSource, argMax, page, source, max_items, config, response,
                   output, error, fetches, run, extracted, prev>>

HasLink(element) == element.link # "none"

GetHref(element) == IF element.has_href THEN element.href ELSE << >>

SkipElementIgnoresText(headline_text, accepted) == ~accepted
SkipElement(headline_text, accepted) == headline_text = << >> \/ ~accepted

\* urljoin(config['base_url'], href) if href else None; << >> stands for None
FullUrl(base_url, href) == IF href # << >> THEN urljoin(base_url, href) ELSE << >>

IsNewNoDedup(full_url, seen) == full_url # << >>
IsNew(full_url, seen) == full_url # << >> /\ full_url \notin seen

AddHeadlineInFront(hs, item) == <<item>> \o hs
AddHeadline(hs, item) == Append(hs, item)

CapReachedOffByOne(hs, cap) == Len(hs) > cap[1]
CapReached(hs, cap) == Len(hs) >= cap[1]

Keep(hs, seen) == [headlines |-> hs, seen_urls |-> seen, stop |-> FALSE]

Emitted(hs2, seen2, cap) ==
    [headlines |-> hs2, seen_urls |-> seen2, stop |-> CapReached(hs2, cap)]

\* lines 123-132, reached with a headline text and an accepted href
EmitMarked(headline_text, full_url, cap, hs, seen) ==
    IF IsNew(full_url, seen)
    THEN Emitted(AddHeadline(hs, [headline |-> headline_text, link |-> full_url]),
                 seen \cup {full_url}, cap)
    ELSE Keep(hs, seen \cup {full_url})

Emit(headline_text, full_url, cap, hs, seen) ==
    IF IsNew(full_url, seen)
    THEN Emitted(AddHeadline(hs, [headline |-> headline_text, link |-> full_url]),
                 seen \cup {full_url}, cap)
    ELSE Keep(hs, seen)

Mark(seen, full_url) == IF full_url # << >> THEN seen \cup {full_url} ELSE seen

\* One iteration of the for loop: the lists after it, and whether it broke out.
LoopBodyMarksRejected(element, key, cap, hs, seen) ==
    IF ~HasLink(element) THEN Keep(hs, seen)
    ELSE IF SkipElement(Strip(element.text), link_filter(key, GetHref(element)))
    THEN Keep(hs, Mark(seen, FullUrl(SOURCES_CONFIG[key].base_url, GetHref(element))))
    ELSE EmitMarked(Strip(element.text),
                    FullUrl(SOURCES_CONFIG[key].base_url, GetHref(element)),
                    cap, hs, seen)

LoopBody(element, key, cap, hs, seen) ==
    IF ~HasLink(element) THEN Keep(hs, seen)
    ELSE IF SkipElement(Strip(element.text), link_filter(key, GetHref(element)))
    THEN Keep(hs, seen)
    ELSE Emit(Strip(element.text),
              FullUrl(SOURCES_CONFIG[key].base_url, GetHref(element)),
              cap, hs, seen)

Advance(r) ==
    /\ headlines' = r.headlines
    /\ seen_urls' = r.seen_urls
    /\ pc' = IF r.stop THEN "report" ELSE "loop"
    /\ extracted' = r.stop

LoopStep ==
    /\ pc = "loop"
    /\ idx <= Len(elements)
    /\ Advance(LoopBody(elements[idx], config, max_items, headlines, seen_urls))
    /\ idx' = idx + 1
    /\ UNCHANGED <<argSource, argMax, page, source, max_items, config, response,
                   elements, output, error, fetches, run, prev>>

LoopExit ==
    /\ pc = "loop"
    /\ idx > Len(elements)
    /\ pc' = "report"
    /\ extracted' = TRUE
    /\ UNCHANGED <<argSource, argMax, page, source, max_items, config, response,
                   elements, idx, headlines, seen_urls, output, error, fetches, run, prev>>

(* -------------------------------- report ------------------------------- *)
Line(kind, index, text) == [kind |-> kind, index |-> index, text |-> text]

Header == Line("header", 0, <<"Latest", source_upper(source), "News Headlines:">>)

RECURSIVE ItemLines(_, _)
ItemLines(hs, i) ==
    IF i > Len(hs) THEN << >>
    ELSE <<Line("headline", i, hs[i].headline), Line("link", i, hs[i].link)>>
         \o ItemLines(hs, i + 1)

\* The name `world` (line 138) is assigned nowhere in app.py.  Whether the
\* namespace the script runs in binds it is outside the source, so the lookup
\* can succeed (ReportOK) or raise NameError (ReportNameError).  It is evaluated
\* only when the for loop over headlines has an item.
NameErrorPossibleAlways(hs) == TRUE
NameErrorPossible(hs) == hs # << >>

ReportOK ==
    /\ pc = "report"
    /\ output' = <<Header>> \o ItemLines(headlines, 1) \o <<Line("blank", 0, << >>)>>
    /\ pc' = "done"
    /\ UNCHANGED <<argSource, argMax, page, source, max_items, config, response,
                   elements, idx, headlines, seen_urls, error, fetches, run,
                   extracted, prev>>

ReportNameError ==
    /\ pc = "report"
    /\ NameErrorPossible(headlines)
    /\ output' = <<Header>>
                 \o (IF headlines # << >>
                     THEN <<Line("headline", 1, headlines[1].headline)>> ELSE << >>)
    /\ error' = [type |-> "RuntimeError", msg |-> <<"An error occurred while scraping:">>]
    /\ pc' = "failed"
    /\ UNCHANGED <<argSource, argMax, page, source, max_items, config, response,
                   elements, idx, headlines, seen_urls, fetches, run, extracted, prev>>

(* ------------------------------ second run ----------------------------- *)
\* The script is executed again in the same namespace: lines 20-21 assign
\* source and max_items anew; every other name keeps its value until the
\* script assigns it.
Rerun ==
    /\ pc \in {"done", "failed"}
    /\ run < MaxRuns
    /\ run' = run + 1
    /\ source' = argSource
    /\ max_items' = argMax
    /\ prev' = [extracted |-> extracted,
                headlines |-> IF extracted THEN headlines ELSE << >>,
                max_items |-> IF extracted THEN max_items ELSE None]
    /\ extracted' = FALSE
    /\ output' = << >>
    /\ error' = NoError
    /\ fetches' = 0
    /\ pc' = "start"
    /\ UNCHANGED <<argSource, argMax, page, config, response, elements, idx,
                   headlines, seen_urls>>

Next ==
    \/ LookupFail
    \/ LookupOK
    \/ FetchOK
    \/ FetchFail
    \/ BeginExtract
    \/ LoopStep
    \/ LoopExit
    \/ ReportOK
    \/ ReportNameError
    \/ Rerun

Spec == Init /\ [][Next]_vars

(* ------------------------ notions used by the claims ------------------- *)
\* The for loop of this run has started: headlines, seen_urls, elements and idx
\* are those of this run.
Extracting == pc = "loop" \/ extracted

\* Elements the loop has gone through.
Processed == idx - 1

Cap == max_items[1]

Links(hs) == {hs[i].link : i \in DOMAIN hs}

Min(a, b) == IF a <= b THEN a ELSE b

Take(s, n) == SubSeq(s, 1, Min(n, Len(s)))

Qualifies(e, key) ==
    /\ e.link # "none"
    /\ Strip(e.text) # << >>
    /\ link_filter(key, GetHref(e))

LinkOf(e, key) == urljoin(SOURCES_CONFIG[key].base_url, GetHref(e))

\* The qualifying elements among the first n of es, each resolved, without those
\* whose link an earlier one has.
RECURSIVE Reference(_, _, _)
Reference(es, n, key) ==
    IF n = 0 THEN << >>
    ELSE LET r == Reference(es, n - 1, key)
             e == es[n]
         IN IF Qualifies(e, key) /\ LinkOf(e, key) \notin Links(r)
            THEN Append(r, [headline |-> Strip(e.text), link |-> LinkOf(e, key)])
            ELSE r

FetchSucceeded ==
    /\ fetches = 1
    /\ pc # "fetch"
    /\ ~(pc = "failed" /\ error.msg = <<"Failed to fetch news:">>)

(* -------------------------------- claims ------------------------------- *)

\* C1: with a positive cap the result never holds more than max_items entries,
\* after every loop step and at the end, and the loop goes on to another element
\* only while the result is shorter than max_items.
C1_CapBound ==
    (Extracting /\ Cap > 0) =>
        /\ Len(headlines) <= Cap
        /\ (pc = "loop" => Len(headlines) < Cap)

\* C1 witness: the loop broke out at the cap with elements left unprocessed.
C1_Witness ==
    /\ extracted /\ Cap > 0
    /\ Len(headlines) = Cap
    /\ Processed < Len(elements)

\* C2: no two entries of the result have the same link, after every loop step,
\* and each entry comes from the first qualifying element, in document order,
\* whose href resolves to its link.
C2_UniqueLinks ==
    Extracting =>
        /\ \A i, j \in DOMAIN headlines : i # j => headlines[i].link # headlines[j].link
        /\ \A j \in DOMAIN headlines :
              \E k \in 1..Processed :
                 /\ Qualifies(elements[k], config)
                 /\ LinkOf(elements[k], config) = headlines[j].link
                 /\ Strip(elements[k].text) = headlines[j].headline
                 /\ \A m \in 1..(k - 1) :
                       ~(Qualifies(elements[m], config)
                         /\ LinkOf(elements[m], config) = headlines[j].link)

\* C2 witness: two qualifying elements with different raw hrefs and the same
\* resolved link have both been processed, and the result holds that link.
C2_Witness ==
    /\ extracted
    /\ \E k, m \in 1..Processed :
          /\ k < m
          /\ Qualifies(elements[k], config) /\ Qualifies(elements[m], config)
          /\ GetHref(elements[k]) # GetHref(elements[m])
          /\ LinkOf(elements[k], config) = LinkOf(elements[m], config)
          /\ LinkOf(elements[k], config) \in Links(headlines)

\* C3: every entry of the result has a non-empty headline that is the trimmed
\* text of an element; an element whose trimmed text is empty is never emitted.
C3_NonEmptyHeadline ==
    Extracting =>
        \A j \in DOMAIN headlines :
            /\ headlines[j].headline # << >>
            /\ headlines[j].headline = Strip(headlines[j].headline)

\* C3 witness: an element with blank text and an accepted href has been processed.
C3_Witness ==
    /\ extracted
    /\ \E k \in 1..Processed :
          /\ elements[k].link # "none"
          /\ elements[k].text # << >>
          /\ Strip(elements[k].text) = << >>
          /\ link_filter(config, GetHref(elements[k]))

\* C4: a source whose lowercase form is no key of SOURCES_CONFIG ends the run
\* with a ValueError whose message lists every key, and no fetch is ever issued.
C4_UnsupportedSource ==
    source_lower(argSource) \notin DOMAIN SOURCES_CONFIG =>
        /\ fetches = 0
        /\ response = << >>
        /\ pc \in {"start", "failed"}
        /\ pc = "failed" =>
              /\ error.type = "ValueError"
              /\ \A k \in DOMAIN SOURCES_CONFIG :
                    \E i \in DOMAIN error.msg : error.msg[i] = k

\* C4 witness: a run with an unsupported source has failed.
C4_Witness ==
    /\ source_lower(argSource) \notin DOMAIN SOURCES_CONFIG
    /\ pc = "failed"
    /\ error.type = "ValueError"

\* C5: once the cap is set, it is the rule's own max_items when the override is
\* absent, zero or negative, and the override when the override is positive.
C5_EffectiveCap ==
    (pc \in {"fetch", "parse", "loop", "report", "done"} \/ (pc = "failed" /\ fetches > 0)) =>
        max_items = IF argMax = None \/ argMax[1] <= 0
                    THEN <<SOURCES_CONFIG[config].max_items>>
                    ELSE argMax

\* C6: with a positive cap the result equals the first max_items entries of the
\* reference sequence of the document (the matched elements in document order
\* that have a hyperlink, non-empty trimmed text and an accepted href, resolved,
\* without those whose link occurred earlier); after every loop step it equals
\* that of the elements processed so far.
C6_ReferenceOrder ==
    (Extracting /\ Cap > 0) =>
        /\ headlines = Take(Reference(elements, Processed, config), Cap)
        /\ extracted =>
              headlines = Take(Reference(select(page), Len(select(page)), config), Cap)

\* C6 witness: the result is full at the cap after more elements than entries
\* were processed: a duplicate or rejected element did not count towards the cap.
C6_Witness ==
    /\ extracted /\ Cap > 0
    /\ Len(headlines) = Cap
    /\ Len(headlines) >= 2
    /\ Processed > Len(headlines)

\* C7: a run ends with a complete result printed and no error, or with an error
\* and nothing of a result; at most one fetch is issued per run and nothing is
\* extracted after a failed fetch.
C7_TwoOutcomes ==
    /\ fetches <= 1
    /\ (pc = "failed" /\ error.msg = <<"Failed to fetch news:">>) => ~Extracting
    /\ pc = "done" =>
          /\ error = NoError
          /\ output = <<Header>> \o ItemLines(headlines, 1) \o <<Line("blank", 0, << >>)>>
    /\ pc = "failed" =>
          /\ error # NoError
          /\ \A i \in DOMAIN output : output[i].kind \notin {"headline", "link"}

\* C8: when the fetch succeeded and the selector matches no element, the run
\* never fails and ends with an empty result and the header alone printed.
C8_EmptyIsNoError ==
    (FetchSucceeded /\ select(page) = << >>) =>
        /\ pc \in {"parse", "loop", "report", "done"}
        /\ error = NoError
        /\ Extracting => headlines = << >>
        /\ pc = "done" => output = <<Header, Line("blank", 0, << >>)>>

\* C8 witness: a run on a non-empty page without a matching element is done.
C8_Witness ==
    /\ pc = "done"
    /\ page # << >>
    /\ select(page) = << >>

\* C9: a second run on the same page and arguments starts its loop with empty
\* headlines and seen_urls, uses the same cap, and ends with the same ordered
\* result as the first.
C9_Idempotent ==
    /\ (pc = "loop" /\ idx = 1) => (headlines = << >> /\ seen_urls = {})
    /\ (run >= 2 /\ prev.extracted /\ Extracting) => max_items = prev.max_items
    /\ (run >= 2 /\ prev.extracted /\ extracted) => headlines = prev.headlines

\* C9 witness: the second run has ended its loop with a non-empty result.
C9_Witness ==
    /\ run = 2
    /\ prev.extracted /\ extracted
    /\ headlines # << >>

\* An element the loop skips: no hyperlink, empty trimmed text, or rejected href.
Skipped(e, key) ==
    \/ e.link = "none"
    \/ Strip(e.text) = << >>
    \/ ~link_filter(key, GetHref(e))

\* C10: a loop step over a skipped element leaves headlines and seen_urls
\* unchanged, and after every step seen_urls is the set of links of headlines.
C10_SkipFrame ==
    [][ /\ (pc = "loop" /\ idx' = idx + 1 /\ Skipped(elements[idx], config))
           => (headlines' = headlines /\ seen_urls' = seen_urls)
        /\ seen_urls' = Links(headlines') ]_vars

\* C10 witness: after an entry was emitted, an element with text and a rejected
\* fragment-only href, one without a hyperlink and one with an empty href have
\* been processed.
C10_Witness ==
    /\ extracted
    /\ headlines # << >>
    /\ seen_urls = Links(headlines)
    /\ \E k \in 2..Processed :
          /\ Strip(elements[k].text) # << >>
          /\ elements[k].link # "none"
          /\ StartsWith(GetHref(elements[k]), <<"#">>)
          /\ ~link_filter(config, GetHref(elements[k]))

====
